---- MODULE Spec2Model ----
(***************************************************************************)
(* A model of mud.py: a single-player MUD with a Pomodoro timer.  The      *)
(* state is the Player object, the mutable fields of the global rooms      *)
(* table (enemy, items, respawn_timer), the MudGameGUI fields (timer,      *)
(* auto-move cursor, widget states), the callbacks that Tk's after() has   *)
(* scheduled, the wall clock read by time.time() and the save file.        *)
(*                                                                         *)
(* Every method that changes state is an operator from a state record g    *)
(* to the SET of states it can return in (one per outcome of the random    *)
(* draws it makes), so that a method calling another is the union of the   *)
(* callee's outcomes.  An action applies one handler to the current state. *)
(***************************************************************************)
EXTENDS Integers, Sequences, FiniteSets, TLC

VARIABLES
    player,                     \* self.player: a Player record, or None
    room_enemy,                 \* rooms[k].enemy: an Enemy record, or None
    room_items,                 \* rooms[k].items
    respawn_timer,              \* rooms[k].respawn_timer
    auto_move_index,            \* self.auto_move_index
    pomodoro_running,           \* self.pomodoro_running
    pomodoro_in_break,          \* self.pomodoro_in_break
    pomodoro_seconds_left,      \* self.pomodoro_seconds_left
    in_pause,                   \* self.in_pause
    temp_pomodoro_seconds_left, \* self.temp_pomodoro_seconds_left
    pending,                    \* due times of the tick_pomodoro callbacks scheduled by after()
    widgets,                    \* which of the widgets the code disables are enabled
    now,                        \* time.time(), in seconds
    save_file,                  \* the content of SAVE_FILE, or None when the file is missing
    ops,                        \* how many handlers Tk has called
    call,                       \* a direct call of a Player method: its arguments (or None)
    last                        \* what the last handler did (observation only)

vars == <<player, room_enemy, room_items, respawn_timer, auto_move_index,
          pomodoro_running, pomodoro_in_break, pomodoro_seconds_left, in_pause,
          temp_pomodoro_seconds_left, pending, widgets, now, save_file, ops, call, last>>

\* Python's None.
None == [none |-> TRUE]

-----------------------------------------------------------------------------
(* Bounds of the model *)

\* at most MaxOps handlers run in all: commands, button presses, timer callbacks
MaxOps == 3
\* add_experience is called directly on players below level MaxLevel
MaxLevel == 6
\* a duel is at most MaxDuel commands long
MaxDuel == 10
\* random.randint(a, b) is explored at its lowest MaxDraws - 1 values and at b
MaxDraws == 2
\* random.choice(ENEMY_POOL) is explored over the first MaxPool templates
MaxPool == 1
\* a walk is at most MaxWalk timer handlers long
MaxWalk == 2
\* a stay in the start room is followed for at most MaxStay handlers
MaxStay == 60
\* a roam through the rooms is followed for at most MaxRoam handlers
MaxRoam == 80

-----------------------------------------------------------------------------
(* Program constants *)

POMODORO_FOCUS_TIME == 60 * 25
POMODORO_BREAK_TIME == 60 * 5

CLASS_STATS ==
    [warrior |-> [max_hp |-> 120, base_attack |-> 8,  skill_name |-> "Power Strike"],
     mage    |-> [max_hp |-> 80,  base_attack |-> 12, skill_name |-> "Arcane Blast"],
     rogue   |-> [max_hp |-> 100, base_attack |-> 10, skill_name |-> "Backstab"]]

HP_PER_LEVEL == 10
ATTACK_PER_LEVEL == 2

ENEMY_POOL ==
    << [name |-> "Anti Claws",     hp |-> 100, attack_power |-> 12, exp |-> 50],
       [name |-> "Shadow Beast",   hp |-> 80,  attack_power |-> 8,  exp |-> 30],
       [name |-> "Angry Turkey",   hp |-> 60,  attack_power |-> 6,  exp |-> 20],
       [name |-> "Goblin Raider",  hp |-> 70,  attack_power |-> 7,  exp |-> 25],
       [name |-> "Mountain Troll", hp |-> 120, attack_power |-> 10, exp |-> 60] >>

RESPAWN_TIME == 10

\* self.auto_move_directions
auto_move_directions == <<"north", "west", "east", "south">>

\* The static part of the rooms table: exits and the items each room starts with.
rooms ==
  [
    temple_of_stillness |->
        [exits |-> [northwest |-> "downtown_gads_landing", east |-> "outer_courtyard"],
         items |-> <<"pair_of_red_fur_claws", "pair_of_red_fur_claws", "pair_of_red_fur_claws">>],
    outer_courtyard |->
        [exits |-> [west |-> "temple_of_stillness", east |-> "training_ground", north |-> "castle_entrance"],
         items |-> <<"training_dummy">>],
    training_ground |->
        [exits |-> [west |-> "outer_courtyard", southeast |-> "downtown_gads_landing"],
         items |-> <<"wooden_sword">>],
    downtown_gads_landing |->
        [exits |-> [north |-> "gads_way_road", south |-> "back_alley", east |-> "outer_courtyard"],
         items |-> <<"greeting_ranger", "huge_portal", "stone_statue">>],
    gads_way_road |->
        [exits |-> [east |-> "forest_path", south |-> "downtown_gads_landing", north |-> "farmland_1"],
         items |-> <<>>],
    forest_path |->
        [exits |-> [west |-> "gads_way_road", east |-> "ridge_fork"],
         items |-> <<"blood_red_bird">>],
    ridge_fork |->
        [exits |-> [west |-> "forest_path", south |-> "ridge_path"],
         items |-> <<"warning_sign">>],
    ridge_path |->
        [exits |-> [north |-> "ridge_fork", south |-> "ridge_path_2", east |-> "mountain_pass_1"],
         items |-> <<>>],
    ridge_path_2 |->
        [exits |-> [north |-> "ridge_path"],
         items |-> <<"blood_red_bear">>],
    back_alley |->
        [exits |-> [north |-> "downtown_gads_landing", south |-> "city_slums_1"],
         items |-> <<"discarded_bottle">>],
    castle_entrance |->
        [exits |-> [south |-> "outer_courtyard", north |-> "castle_hall_1"],
         items |-> <<"rusted_shield">>],
    castle_hall_1 |->
        [exits |-> [south |-> "castle_entrance", north |-> "castle_hall_2"],
         items |-> <<"torn_tapestry">>],
    castle_hall_2 |->
        [exits |-> [south |-> "castle_hall_1", north |-> "castle_hall_3"],
         items |-> <<"broken_lance">>],
    castle_hall_3 |->
        [exits |-> [south |-> "castle_hall_2", north |-> "castle_hall_4"],
         items |-> <<"dusty_armor">>],
    castle_hall_4 |->
        [exits |-> [south |-> "castle_hall_3"],
         items |-> <<"ancient_throne", "shattered_chandelier">>],
    mountain_pass_1 |->
        [exits |-> [west |-> "ridge_path", east |-> "mountain_pass_2"],
         items |-> <<"stone_marker">>],
    mountain_pass_2 |->
        [exits |-> [west |-> "mountain_pass_1", east |-> "mountain_pass_3"],
         items |-> <<"loose_rocks">>],
    mountain_pass_3 |->
        [exits |-> [west |-> "mountain_pass_2", east |-> "mountain_pass_4"],
         items |-> <<"weathered_sign">>],
    mountain_pass_4 |->
        [exits |-> [west |-> "mountain_pass_3", east |-> "mountain_pass_5"],
         items |-> <<"broken_spike">>],
    mountain_pass_5 |->
        [exits |-> [west |-> "mountain_pass_4"],
         items |-> <<"eagle_feather">>],
    city_slums_1 |->
        [exits |-> [north |-> "back_alley", south |-> "city_slums_2"],
         items |-> <<"filthy_rag">>],
    city_slums_2 |->
        [exits |-> [north |-> "city_slums_1", south |-> "city_slums_3"],
         items |-> <<"ripped_blanket">>],
    city_slums_3 |->
        [exits |-> [north |-> "city_slums_2", south |-> "city_slums_4"],
         items |-> <<"moldy_bread", "rusty_coin">>],
    city_slums_4 |->
        [exits |-> [north |-> "city_slums_3", south |-> "city_slums_5"],
         items |-> <<>>],
    city_slums_5 |->
        [exits |-> [north |-> "city_slums_4", south |-> "city_slums_6"],
         items |-> <<"charcoal_fire">>],
    city_slums_6 |->
        [exits |-> [north |-> "city_slums_5", south |-> "city_slums_7"],
         items |-> <<"broken_wheel">>],
    city_slums_7 |->
        [exits |-> [north |-> "city_slums_6", south |-> "city_slums_8"],
         items |-> <<"makeshift_knife">>],
    city_slums_8 |->
        [exits |-> [north |-> "city_slums_7", south |-> "city_slums_9"],
         items |-> <<"broken_stair">>],
    city_slums_9 |->
        [exits |-> [north |-> "city_slums_8", south |-> "city_slums_10"],
         items |-> <<"scrap_rope">>],
    city_slums_10 |->
        [exits |-> [north |-> "city_slums_9"],
         items |-> <<"charred_debris">>],
    farmland_1 |->
        [exits |-> [south |-> "gads_way_road", north |-> "farmland_2"],
         items |-> <<"scarecrow">>],
    farmland_2 |->
        [exits |-> [south |-> "farmland_1", north |-> "farmland_3"],
         items |-> <<"bundle_of_corn">>],
    farmland_3 |->
        [exits |-> [south |-> "farmland_2", north |-> "farmland_4"],
         items |-> <<"hay_bale">>],
    farmland_4 |->
        [exits |-> [south |-> "farmland_3", north |-> "farmland_5"],
         items |-> <<"wheat_bundle">>],
    farmland_5 |->
        [exits |-> [south |-> "farmland_4", north |-> "farmland_6"],
         items |-> <<"apple">>],
    farmland_6 |->
        [exits |-> [south |-> "farmland_5", north |-> "farmland_7"],
         items |-> <<"fruit_basket">>],
    farmland_7 |->
        [exits |-> [south |-> "farmland_6", north |-> "farmland_8"],
         items |-> <<"cow_bell">>],
    farmland_8 |->
        [exits |-> [south |-> "farmland_7", north |-> "farmland_9"],
         items |-> <<"duck_feather">>],
    farmland_9 |->
        [exits |-> [south |-> "farmland_8", north |-> "farmland_10"],
         items |-> <<"bag_of_seeds", "rusty_shovel">>],
    farmland_10 |->
        [exits |-> [south |-> "farmland_9"],
         items |-> <<"tall_grass">>],
    cavern_1 |->
        [exits |-> [south |-> "farmland_10", north |-> "cavern_2"],
         items |-> <<"damp_rocks">>],
    cavern_2 |->
        [exits |-> [south |-> "cavern_1", north |-> "cavern_3"],
         items |-> <<"small_stalactite">>],
    cavern_3 |->
        [exits |-> [south |-> "cavern_2", north |-> "cavern_4"],
         items |-> <<"glowing_moss">>],
    cavern_4 |->
        [exits |-> [south |-> "cavern_3", north |-> "cavern_5"],
         items |-> <<"crystal_shard">>],
    cavern_5 |->
        [exits |-> [south |-> "cavern_4", north |-> "cavern_6"],
         items |-> <<"worn_warning">>],
    cavern_6 |->
        [exits |-> [south |-> "cavern_5", north |-> "cavern_7"],
         items |-> <<"cave_spider_web">>],
    cavern_7 |->
        [exits |-> [south |-> "cavern_6", north |-> "cavern_8"],
         items |-> <<"driftwood">>],
    cavern_8 |->
        [exits |-> [south |-> "cavern_7", north |-> "cavern_9"],
         items |-> <<"foggy_stone">>],
    cavern_9 |->
        [exits |-> [south |-> "cavern_8", north |-> "cavern_10"],
         items |-> <<"glow_shroom">>],
    cavern_10 |->
        [exits |-> [south |-> "cavern_9"],
         items |-> <<"underground_waterfall">>]
  ]

RoomKeys == DOMAIN rooms

-----------------------------------------------------------------------------
(* Randomness *)

\* random.randint(a, b): an integer of a..b (the sample the model explores)
randint(a, b) == {x \in a..b : x <= a + (MaxDraws - 2) \/ x = b}

\* random.choice(ENEMY_POOL)
random_choice == {ENEMY_POOL[i] : i \in {j \in 1..Len(ENEMY_POOL) : j <= MaxPool}}

-----------------------------------------------------------------------------
(* Player *)

\* str.lower on the class names a dialog or a save file can carry: the names with
\* an upper-case letter are listed, every other name is lower-case already
lower(text) ==
    CASE text = "Warrior" -> "warrior"
      [] text = "Mage"    -> "mage"
      [] text = "ROGUE"   -> "rogue"
      [] text = "Bard"    -> "bard"
      [] OTHER            -> text

\* the default of Player.__init__'s tasks argument
DefaultTasks ==
    [complete_daily_job |-> FALSE, drink_from_stream |-> FALSE, stun_opponent |-> FALSE]

\* Player.__init__: the class name is lower-cased and a tasks argument that is
\* None or an empty dict gets its default (a caller that leaves the inventory out
\* passes the empty list the constructor would make)
Player(name, player_class, level, exp, max_hp, hp, base_attack, inventory, location, tasks, pomodoro_streak) ==
    [name |-> name, player_class |-> lower(player_class), level |-> level, exp |-> exp,
     max_hp |-> max_hp, hp |-> hp, base_attack |-> base_attack,
     inventory |-> inventory,
     location |-> location,
     tasks |-> IF tasks = None \/ DOMAIN tasks = {} THEN DefaultTasks ELSE tasks,
     pomodoro_streak |-> pomodoro_streak]

\* Player.calculate_attack
calculate_attack(p) == p.base_attack

\* mutant of level_up: max HP is computed from the class's base, not the current one
level_up_from_base(p) ==
    [p EXCEPT !.level = @ + 1,
              !.max_hp = CLASS_STATS[p.player_class].max_hp + HP_PER_LEVEL,
              !.hp = CLASS_STATS[p.player_class].max_hp + HP_PER_LEVEL,
              !.base_attack = @ + ATTACK_PER_LEVEL]

\* mutant of level_up: the attack grows by the HP gain of a level
level_up_attack_by_hp_gain(p) ==
    [p EXCEPT !.level = @ + 1,
              !.max_hp = @ + HP_PER_LEVEL,
              !.hp = p.max_hp + HP_PER_LEVEL,
              !.base_attack = @ + HP_PER_LEVEL]

\* mutant of level_up: current HP grows with max HP instead of being restored
level_up_adds_hp(p) ==
    [p EXCEPT !.level = @ + 1,
              !.max_hp = @ + HP_PER_LEVEL,
              !.hp = @ + HP_PER_LEVEL,
              !.base_attack = @ + ATTACK_PER_LEVEL]

\* Player.level_up
level_up(p) ==
    [p EXCEPT !.level = @ + 1,
              !.max_hp = @ + HP_PER_LEVEL,
              !.hp = p.max_hp + HP_PER_LEVEL,
              !.base_attack = @ + ATTACK_PER_LEVEL]

\* mutant of add_experience_loop: "if" for "while", one level-up at most
add_experience_once(p) ==
    IF p.exp >= p.level * 100
    THEN [level_up(p) EXCEPT !.exp = p.exp - p.level * 100]
    ELSE p

\* mutant of add_experience_loop: required_exp is not recomputed after a level-up
add_experience_stale(p) ==
    LET required_exp == p.level * 100
        n == IF p.exp >= required_exp THEN p.exp \div required_exp ELSE 0
    IN  IF n = 0
        THEN p
        ELSE [p EXCEPT !.level = @ + n,
                       !.max_hp = @ + n * HP_PER_LEVEL,
                       !.hp = p.max_hp + n * HP_PER_LEVEL,
                       !.base_attack = @ + n * ATTACK_PER_LEVEL,
                       !.exp = p.exp - n * required_exp]

\* the while loop of Player.add_experience
RECURSIVE add_experience_loop(_)
add_experience_loop(p) ==
    IF p.exp >= p.level * 100
    THEN add_experience_loop([level_up(p) EXCEPT !.exp = p.exp - p.level * 100])
    ELSE p

\* Player.add_experience
add_experience(p, amount) == add_experience_loop([p EXCEPT !.exp = @ + amount])

-----------------------------------------------------------------------------
(* Enemy and Room *)

\* Enemy.__init__
Enemy(name, hp, attack_power, exp_reward) ==
    [name |-> name, hp |-> hp, attack_power |-> attack_power,
     exp_reward |-> exp_reward, alive |-> TRUE]

\* the test "room.enemy and room.enemy.is_alive()"
is_alive(e) == e # None /\ e.alive /\ e.hp > 0

\* mutant of spawn_enemy: the respawn timer is not consulted
spawn_enemy_at_once(g, k) ==
    IF is_alive(g.room_enemy[k])
    THEN {g.room_enemy[k]}
    ELSE {Enemy(chosen.name, chosen.hp, chosen.attack_power, chosen.exp) :
              chosen \in random_choice}

\* mutant of spawn_enemy: a live enemy is not kept once the deadline has passed
spawn_enemy_over_live(g, k) ==
    IF g.now >= g.respawn_timer[k]
    THEN {Enemy(chosen.name, chosen.hp, chosen.attack_power, chosen.exp) :
              chosen \in random_choice}
    ELSE {g.room_enemy[k]}

\* Room.spawn_enemy: the values rooms[k].enemy can have afterwards
spawn_enemy(g, k) ==
    IF is_alive(g.room_enemy[k])
    THEN {g.room_enemy[k]}
    ELSE IF g.now >= g.respawn_timer[k]
         THEN {Enemy(chosen.name, chosen.hp, chosen.attack_power, chosen.exp) :
                   chosen \in random_choice}
         ELSE {g.room_enemy[k]}

\* MudGameGUI.maybe_respawn_mob
maybe_respawn_mob(g, k) ==
    {[g EXCEPT !.room_enemy[k] = e,
               !.last.spawns = @ + (IF e # g.room_enemy[k] THEN 1 ELSE 0)] :
         e \in spawn_enemy(g, k)}

\* mutant of handle_mob_death: the respawn delay is not added
handle_mob_death_no_delay(g, k) ==
    [g EXCEPT !.room_enemy[k] = None,
              !.respawn_timer[k] = g.now,
              !.last.kills = @ + 1,
              !.last.slain = [g.room_enemy[k] EXCEPT !.alive = FALSE]]

\* mutant of handle_mob_death: the room keeps its reference to the dead enemy
handle_mob_death_keeps_ref(g, k) ==
    [g EXCEPT !.room_enemy[k].alive = FALSE,
              !.respawn_timer[k] = g.now + RESPAWN_TIME,
              !.last.kills = @ + 1,
              !.last.slain = [g.room_enemy[k] EXCEPT !.alive = FALSE]]

\* MudGameGUI.handle_mob_death: last.slain is the Enemy object as the handler
\* leaves it, marked dead, when the room drops its reference to it
handle_mob_death(g, k) ==
    [g EXCEPT !.room_enemy[k] = None,
              !.respawn_timer[k] = g.now + RESPAWN_TIME,
              !.last.kills = @ + 1,
              !.last.slain = [g.room_enemy[k] EXCEPT !.alive = FALSE]]

-----------------------------------------------------------------------------
(* Commands *)

\* MudGameGUI.look_around
look_around(g) == maybe_respawn_mob(g, g.player.location)

\* mutant of move_player: a move that fails still looks around
move_player_looks(g, direction) ==
    LET room == g.player.location IN
    IF direction \notin DOMAIN rooms[room].exits
    THEN look_around([g EXCEPT !.last.failed = TRUE])
    ELSE look_around([g EXCEPT !.player.location = rooms[room].exits[direction],
                               !.last.moves = @ + 1])

\* MudGameGUI.move_player (no exit of the rooms table is None)
move_player(g, direction) ==
    LET room == g.player.location IN
    IF direction \notin DOMAIN rooms[room].exits
    THEN {[g EXCEPT !.last.failed = TRUE]}
    ELSE look_around([g EXCEPT !.player.location = rooms[room].exits[direction],
                               !.last.moves = @ + 1])

\* mutant of heal_player: the healed HP is not capped at max_hp
heal_player_uncapped(g) ==
    IF g.player.hp >= g.player.max_hp
    THEN {[g EXCEPT !.last.failed = TRUE]}
    ELSE {[g EXCEPT !.player.hp = g.player.hp + heal_amount,
                    !.last.heals = @ + 1] :
              heal_amount \in randint(5, 15)}

\* MudGameGUI.heal_player
heal_player(g) ==
    IF g.player.hp >= g.player.max_hp
    THEN {[g EXCEPT !.last.failed = TRUE]}
    ELSE {[g EXCEPT !.player.hp =
                        IF g.player.hp + heal_amount < g.player.max_hp
                        THEN g.player.hp + heal_amount ELSE g.player.max_hp,
                    !.last.heals = @ + 1] :
              heal_amount \in randint(5, 15)}

\* mutant of defeat_enemy: the kill is recorded under the wrong task
defeat_enemy_wrong_task(g, k) ==
    handle_mob_death(
        [g EXCEPT !.player = [add_experience(g.player, g.room_enemy[k].exp_reward)
                                  EXCEPT !.tasks.complete_daily_job = TRUE]],
        k)

\* mutant of defeat_enemy: the stun_opponent task is not updated
defeat_enemy_no_task(g, k) ==
    handle_mob_death(
        [g EXCEPT !.player = add_experience(g.player, g.room_enemy[k].exp_reward)],
        k)

\* MudGameGUI.attack_enemy, lines 1157-1169: the enemy is defeated
defeat_enemy(g, k) ==
    handle_mob_death(
        [g EXCEPT !.player = [add_experience(g.player, g.room_enemy[k].exp_reward)
                                  EXCEPT !.tasks.stun_opponent = TRUE]],
        k)

\* MudGameGUI.attack_enemy, lines 1171-1178: the enemy hits back
enemy_hits_back(g, k) ==
    UNION {LET g1 == [g EXCEPT !.player.hp = @ - enemy_damage] IN
           IF g1.player.hp <= 0
           THEN heal_player([g1 EXCEPT !.last.fell = TRUE])
           ELSE {g1} :
               enemy_damage \in randint(1, g.room_enemy[k].attack_power)}

\* mutant of attack_enemy: with nothing to attack, the room's respawn is evaluated
attack_enemy_respawns(g) ==
    LET k == g.player.location IN
    IF ~is_alive(g.room_enemy[k])
    THEN maybe_respawn_mob([g EXCEPT !.last.failed = TRUE], k)
    ELSE UNION {LET player_damage == IF drawn < 0 THEN 0 ELSE drawn
                    g1 == [g EXCEPT !.room_enemy[k].hp = @ - player_damage,
                                    !.last.attacks = @ + 1]
                IN  IF g1.room_enemy[k].hp <= 0
                    THEN {defeat_enemy(g1, k)}
                    ELSE enemy_hits_back(g1, k) :
                    drawn \in randint(calculate_attack(g.player) - 2,
                                      calculate_attack(g.player) + 2)}

\* mutant of attack_enemy: the enemy hits back before the test for its defeat
attack_enemy_hits_back_first(g) ==
    LET k == g.player.location IN
    IF ~is_alive(g.room_enemy[k])
    THEN {[g EXCEPT !.last.failed = TRUE]}
    ELSE UNION {LET player_damage == IF drawn < 0 THEN 0 ELSE drawn
                    g1 == [g EXCEPT !.room_enemy[k].hp = @ - player_damage,
                                    !.last.attacks = @ + 1]
                IN  IF g1.room_enemy[k].hp <= 0
                    THEN {defeat_enemy(g2, k) : g2 \in enemy_hits_back(g1, k)}
                    ELSE enemy_hits_back(g1, k) :
                    drawn \in randint(calculate_attack(g.player) - 2,
                                      calculate_attack(g.player) + 2)}

\* MudGameGUI.attack_enemy
attack_enemy(g) ==
    LET k == g.player.location IN
    IF ~is_alive(g.room_enemy[k])
    THEN {[g EXCEPT !.last.failed = TRUE]}
    ELSE UNION {LET player_damage == IF drawn < 0 THEN 0 ELSE drawn
                    g1 == [g EXCEPT !.room_enemy[k].hp = @ - player_damage,
                                    !.last.attacks = @ + 1]
                IN  IF g1.room_enemy[k].hp <= 0
                    THEN {defeat_enemy(g1, k)}
                    ELSE enemy_hits_back(g1, k) :
                    drawn \in randint(calculate_attack(g.player) - 2,
                                      calculate_attack(g.player) + 2)}

\* mutant of game_over: the command entry stays enabled
game_over_entry_open(g) ==
    [g EXCEPT !.widgets.btn_save = FALSE,
              !.widgets.btn_pomo_start = FALSE,
              !.widgets.btn_pomo_stop = FALSE,
              !.pomodoro_running = FALSE,
              !.pomodoro_in_break = FALSE,
              !.last.fell = TRUE]

\* MudGameGUI.use_class_skill, lines 1245-1252: Game Over
game_over(g) ==
    [g EXCEPT !.widgets.btn_save = FALSE,
              !.widgets.command_entry = FALSE,
              !.widgets.btn_pomo_start = FALSE,
              !.widgets.btn_pomo_stop = FALSE,
              !.pomodoro_running = FALSE,
              !.pomodoro_in_break = FALSE,
              !.last.fell = TRUE]

\* mutant of use_class_skill: the boost is added to the player's attack
use_class_skill_adds_attack(g) ==
    LET k == g.player.location IN
    IF ~is_alive(g.room_enemy[k])
    THEN {[g EXCEPT !.last.failed = TRUE]}
    ELSE UNION {LET g1 == [g EXCEPT !.room_enemy[k].hp =
                                        @ - (calculate_attack(g.player) + dmg_boost),
                                    !.last.attacks = @ + 1]
                IN  IF g1.room_enemy[k].hp <= 0
                    THEN {defeat_enemy(g1, k)}
                    ELSE {LET g2 == [g1 EXCEPT !.player.hp = @ - retal_damage] IN
                          IF g2.player.hp <= 0 THEN game_over(g2) ELSE g2 :
                              retal_damage \in randint(1, g1.room_enemy[k].attack_power)} :
                    dmg_boost \in randint(10, 15)}

\* MudGameGUI.use_class_skill
use_class_skill(g) ==
    LET k == g.player.location IN
    IF ~is_alive(g.room_enemy[k])
    THEN {[g EXCEPT !.last.failed = TRUE]}
    ELSE UNION {LET g1 == [g EXCEPT !.room_enemy[k].hp = @ - dmg_boost,
                                    !.last.attacks = @ + 1]
                IN  IF g1.room_enemy[k].hp <= 0
                    THEN {defeat_enemy(g1, k)}
                    ELSE {LET g2 == [g1 EXCEPT !.player.hp = @ - retal_damage] IN
                          IF g2.player.hp <= 0 THEN game_over(g2) ELSE g2 :
                              retal_damage \in randint(1, g1.room_enemy[k].attack_power)} :
                    dmg_boost \in randint(10, 15)}

-----------------------------------------------------------------------------
(* Items *)

\* "x in list"
Contains(s, x) == \E i \in 1..Len(s) : s[i] = x

\* mutant of Remove: every occurrence of x is dropped
Remove_every_occurrence(s, x) == SelectSeq(s, LAMBDA y : y # x)

\* list.remove(x): drops the first occurrence of x
Remove(s, x) ==
    LET i == CHOOSE j \in 1..Len(s) : s[j] = x /\ \A h \in 1..(j - 1) : s[h] # x
    IN  SubSeq(s, 1, i - 1) \o SubSeq(s, i + 1, Len(s))

\* the item names a command can carry
ItemNames == {"pair_of_red_fur_claws", "training_dummy", "healing_potion"}

\* the test '"healing_potion" in item_name' on the names of ItemNames
is_healing_potion(item_name) == item_name = "healing_potion"

\* MudGameGUI.pickup_item
pickup_item(g, item_name) ==
    LET k == g.player.location IN
    IF ~Contains(g.room_items[k], item_name)
    THEN {[g EXCEPT !.last.failed = TRUE]}
    ELSE {[g EXCEPT !.room_items[k] = Remove(@, item_name),
                    !.player.inventory = Append(@, item_name)]}

\* MudGameGUI.drop_item
drop_item(g, item_name) ==
    LET k == g.player.location IN
    IF ~Contains(g.player.inventory, item_name)
    THEN {[g EXCEPT !.last.failed = TRUE]}
    ELSE {[g EXCEPT !.player.inventory = Remove(@, item_name),
                    !.room_items[k] = Append(@, item_name)]}

\* mutant of use_item: the potion's heal is not capped at max_hp
use_item_uncapped(g, item_name) ==
    IF ~Contains(g.player.inventory, item_name)
    THEN {[g EXCEPT !.last.failed = TRUE]}
    ELSE IF is_healing_potion(item_name)
         THEN {[g EXCEPT !.player.hp = g.player.hp + heal_amount,
                         !.player.inventory = Remove(@, item_name),
                         !.last.heals = @ + 1] :
                   heal_amount \in randint(20, 40)}
         ELSE {[g EXCEPT !.last.failed = TRUE]}

\* MudGameGUI.use_item
use_item(g, item_name) ==
    IF ~Contains(g.player.inventory, item_name)
    THEN {[g EXCEPT !.last.failed = TRUE]}
    ELSE IF is_healing_potion(item_name)
         THEN {[g EXCEPT !.player.hp =
                             IF g.player.hp + heal_amount < g.player.max_hp
                             THEN g.player.hp + heal_amount ELSE g.player.max_hp,
                         !.player.inventory = Remove(@, item_name),
                         !.last.heals = @ + 1] :
                   heal_amount \in randint(20, 40)}
         ELSE {[g EXCEPT !.last.failed = TRUE]}

-----------------------------------------------------------------------------
(* Automation *)

\* MudGameGUI.auto_attack_if_enemy
auto_attack_if_enemy(g) ==
    IF is_alive(g.room_enemy[g.player.location]) THEN attack_enemy(g) ELSE {g}

\* mutant of auto_move_loop: the cursor stops at the matching direction instead
\* of advancing past it
auto_move_loop_cursor_on_match(g, n) ==
    LET exits == DOMAIN rooms[g.player.location].exits
        probe(j) == auto_move_directions[((g.auto_move_index + j)
                                             % Len(auto_move_directions)) + 1]
        hits  == {j \in 0..(n - 1) : probe(j) \in exits}
    IN  IF hits = {}
        THEN {[g EXCEPT !.auto_move_index = (@ + n) % Len(auto_move_directions)]}
        ELSE LET j == CHOOSE h \in hits : \A o \in hits : h <= o
             IN  move_player([g EXCEPT !.auto_move_index =
                                           (@ + j) % Len(auto_move_directions)],
                             probe(j))

\* mutant of auto_move_loop: the probing starts at north whatever the cursor is
auto_move_loop_from_north(g, n) ==
    LET exits == DOMAIN rooms[g.player.location].exits
        hits  == {i \in 1..n : auto_move_directions[i] \in exits}
    IN  IF hits = {}
        THEN {g}
        ELSE LET i == CHOOSE h \in hits : \A o \in hits : h <= o
             IN  move_player([g EXCEPT !.auto_move_index =
                                           i % Len(auto_move_directions)],
                             auto_move_directions[i])

\* MudGameGUI.auto_move_and_attack, lines 970-977: the probing loop with n rounds left
RECURSIVE auto_move_loop(_, _)
auto_move_loop(g, n) ==
    IF n = 0
    THEN {g}
    ELSE LET dir_ == auto_move_directions[g.auto_move_index + 1]
             g1 == [g EXCEPT !.auto_move_index =
                                 (@ + 1) % Len(auto_move_directions)]
         IN  IF dir_ \in DOMAIN rooms[g.player.location].exits
             THEN move_player(g1, dir_)
             ELSE auto_move_loop(g1, n - 1)

\* mutant of auto_move_and_attack: the test of the player's HP is missing
auto_move_and_attack_hurt(g) ==
    LET current_room == g.player.location IN
    IF is_alive(g.room_enemy[current_room])
    THEN auto_attack_if_enemy(g)
    ELSE IF DOMAIN rooms[current_room].exits = {}
         THEN {g}
         ELSE UNION {auto_attack_if_enemy(g1) :
                         g1 \in auto_move_loop(g, Len(auto_move_directions))}

\* mutant of auto_move_and_attack: nothing is attacked after the move
auto_move_and_attack_no_chain(g) ==
    LET current_room == g.player.location IN
    IF is_alive(g.room_enemy[current_room])
    THEN auto_attack_if_enemy(g)
    ELSE IF g.player.hp < g.player.max_hp
         THEN heal_player(g)
         ELSE IF DOMAIN rooms[current_room].exits = {}
              THEN {g}
              ELSE auto_move_loop(g, Len(auto_move_directions))

\* mutant of auto_move_and_attack: the HP test is "<=", so full HP also heals
auto_move_and_attack_rests(g) ==
    LET current_room == g.player.location IN
    IF is_alive(g.room_enemy[current_room])
    THEN auto_attack_if_enemy(g)
    ELSE IF g.player.hp <= g.player.max_hp
         THEN heal_player(g)
         ELSE IF DOMAIN rooms[current_room].exits = {}
              THEN {g}
              ELSE UNION {auto_attack_if_enemy(g1) :
                              g1 \in auto_move_loop(g, Len(auto_move_directions))}

\* MudGameGUI.auto_move_and_attack
auto_move_and_attack(g) ==
    LET current_room == g.player.location IN
    IF is_alive(g.room_enemy[current_room])
    THEN auto_attack_if_enemy(g)
    ELSE IF g.player.hp < g.player.max_hp
         THEN heal_player(g)
         ELSE IF DOMAIN rooms[current_room].exits = {}
              THEN {g}
              ELSE UNION {auto_attack_if_enemy(g1) :
                              g1 \in auto_move_loop(g, Len(auto_move_directions))}

-----------------------------------------------------------------------------
(* Pomodoro timer *)

\* self.after(1000, self.tick_pomodoro)
after_1000(g) == [g EXCEPT !.pending = Append(@, g.now + 1)]

\* mutant of tick_pomodoro: the test "not self.pomodoro_in_break" is missing
tick_pomodoro_in_break(g) ==
    IF ~g.pomodoro_running
    THEN {g}
    ELSE IF g.pomodoro_seconds_left > 0
         THEN LET g1 == [g EXCEPT !.pomodoro_seconds_left = @ - 1,
                                  !.last.ticked = TRUE]
              IN  {after_1000(g2) :
                       g2 \in auto_move_and_attack([g1 EXCEPT !.last.auto = TRUE])}
         ELSE IF ~g.pomodoro_in_break
              THEN {after_1000([g EXCEPT !.player.pomodoro_streak = @ + 1,
                                         !.pomodoro_in_break = TRUE,
                                         !.pomodoro_seconds_left = POMODORO_BREAK_TIME])}
              ELSE {after_1000([g EXCEPT !.pomodoro_in_break = FALSE,
                                         !.pomodoro_seconds_left = POMODORO_FOCUS_TIME])}

\* MudGameGUI.tick_pomodoro
tick_pomodoro(g) ==
    IF ~g.pomodoro_running
    THEN {g}
    ELSE IF g.pomodoro_seconds_left > 0
         THEN LET g1 == [g EXCEPT !.pomodoro_seconds_left = @ - 1,
                                  !.last.ticked = TRUE]
              IN  {after_1000(g2) :
                       g2 \in IF ~g1.pomodoro_in_break
                              THEN auto_move_and_attack([g1 EXCEPT !.last.auto = TRUE])
                              ELSE {g1}}
         ELSE IF ~g.pomodoro_in_break
              THEN {after_1000([g EXCEPT !.player.pomodoro_streak = @ + 1,
                                         !.pomodoro_in_break = TRUE,
                                         !.pomodoro_seconds_left = POMODORO_BREAK_TIME])}
              ELSE {after_1000([g EXCEPT !.pomodoro_in_break = FALSE,
                                         !.pomodoro_seconds_left = POMODORO_FOCUS_TIME])}

\* MudGameGUI.start_pomodoro
start_pomodoro(g) ==
    IF g.player = None
    THEN {[g EXCEPT !.last.failed = TRUE]}
    ELSE IF g.pomodoro_running
         THEN {[g EXCEPT !.last.failed = TRUE]}
         ELSE tick_pomodoro(
                  [g EXCEPT !.pomodoro_running = TRUE,
                            !.pomodoro_in_break = FALSE,
                            !.pomodoro_seconds_left =
                                IF g.in_pause THEN g.temp_pomodoro_seconds_left
                                ELSE POMODORO_FOCUS_TIME,
                            !.in_pause = FALSE])

\* MudGameGUI.pause_pomodoro
pause_pomodoro(g) ==
    IF ~g.pomodoro_running
    THEN {[g EXCEPT !.last.failed = TRUE]}
    ELSE {[g EXCEPT !.pomodoro_running = FALSE,
                    !.pomodoro_in_break = FALSE,
                    !.in_pause = TRUE,
                    !.temp_pomodoro_seconds_left = g.pomodoro_seconds_left]}

\* MudGameGUI.stop_pomodoro
stop_pomodoro(g) ==
    IF ~g.pomodoro_running
    THEN {[g EXCEPT !.last.failed = TRUE]}
    ELSE {[g EXCEPT !.pomodoro_running = FALSE,
                    !.pomodoro_in_break = FALSE]}

-----------------------------------------------------------------------------
(* New game, load and save *)

\* the class names the new-game dialog can return ("" when it is cancelled)
ClassChoices == {"warrior", "mage", "rogue", "", "Mage", "bard"}

\* the four buttons new_game and load_game_action enable
enable_buttons(g) ==
    [g EXCEPT !.widgets.btn_save = TRUE,
              !.widgets.btn_pomo_start = TRUE,
              !.widgets.btn_pomo_pause = TRUE,
              !.widgets.btn_pomo_stop = TRUE]

\* mutant of new_game: hp is left at the default of Player.__init__
new_game_default_hp(g, name, class_choice) ==
    LET name1 == IF name = "" THEN "idleHero" ELSE name
        class1 == IF class_choice = "" \/ lower(class_choice) \notin DOMAIN CLASS_STATS
                  THEN "warrior" ELSE class_choice
        base_stats == CLASS_STATS[lower(class1)]
    IN  look_around(enable_buttons(
            [g EXCEPT !.player =
                 Player(name1, lower(class1), 1, 0, base_stats.max_hp, 120,
                        base_stats.base_attack, <<>>, "temple_of_stillness",
                        None, 0)]))

\* MudGameGUI.new_game
new_game(g, name, class_choice) ==
    LET name1 == IF name = "" THEN "idleHero" ELSE name
        class1 == IF class_choice = "" \/ lower(class_choice) \notin DOMAIN CLASS_STATS
                  THEN "warrior" ELSE class_choice
        base_stats == CLASS_STATS[lower(class1)]
    IN  look_around(enable_buttons(
            [g EXCEPT !.player =
                 Player(name1, lower(class1), 1, 0, base_stats.max_hp, base_stats.max_hp,
                        base_stats.base_attack, <<>>, "temple_of_stillness",
                        None, 0)]))

\* the JSON values json.dump writes for a str, an int, a bool, a list and a dict
json_string(text) == [t |-> "string", v |-> text]
json_number(n) == [t |-> "number", v |-> n]
json_bool(b) == [t |-> IF b THEN "true" ELSE "false"]
json_array(items) == [t |-> "array", v |-> items]
json_object(members) == [t |-> "object", v |-> members]

\* json.load: the Python value of a JSON value
RECURSIVE json_load(_)
json_load(j) ==
    CASE j.t = "string" -> j.v
      [] j.t = "number" -> j.v
      [] j.t = "true"   -> TRUE
      [] j.t = "false"  -> FALSE
      [] j.t = "array"  -> [i \in DOMAIN j.v |-> json_load(j.v[i])]
      [] j.t = "object" -> [k \in DOMAIN j.v |-> json_load(j.v[k])]

\* the keys load_game reads from the record
SchemaFields ==
    {"name", "player_class", "level", "exp", "max_hp", "hp", "base_attack",
     "inventory", "location", "tasks", "pomodoro_streak"}

\* the exception data["<key>"] raises when the record has no such key
KeyError == [raised |-> "KeyError"]

\* mutant of save_game: the streak is not written from the player
save_game_no_streak(p) ==
    json_object(
        [name |-> json_string(p.name),
         player_class |-> json_string(p.player_class),
         level |-> json_number(p.level),
         exp |-> json_number(p.exp),
         max_hp |-> json_number(p.max_hp),
         hp |-> json_number(p.hp),
         base_attack |-> json_number(p.base_attack),
         inventory |-> json_array([i \in DOMAIN p.inventory |->
                                      json_string(p.inventory[i])]),
         location |-> json_string(p.location),
         tasks |-> json_object([k \in DOMAIN p.tasks |-> json_bool(p.tasks[k])]),
         pomodoro_streak |-> json_number(0)])

\* save_game: the JSON object json.dump writes to SAVE_FILE
save_game(p) ==
    json_object(
        [name |-> json_string(p.name),
         player_class |-> json_string(p.player_class),
         level |-> json_number(p.level),
         exp |-> json_number(p.exp),
         max_hp |-> json_number(p.max_hp),
         hp |-> json_number(p.hp),
         base_attack |-> json_number(p.base_attack),
         inventory |-> json_array([i \in DOMAIN p.inventory |->
                                      json_string(p.inventory[i])]),
         location |-> json_string(p.location),
         tasks |-> json_object([k \in DOMAIN p.tasks |-> json_bool(p.tasks[k])]),
         pomodoro_streak |-> json_number(p.pomodoro_streak)])

\* mutant of load_game: a record that lacks a key is treated like a missing file
load_game_swallows(file) ==
    IF file = None
    THEN None
    ELSE LET data == json_load(file) IN
         IF ~(SchemaFields \subseteq DOMAIN data)
         THEN None
         ELSE Player(data.name, data.player_class, data.level, data.exp, data.max_hp,
                     data.hp, data.base_attack, data.inventory, data.location,
                     data.tasks, data.pomodoro_streak)

\* load_game: None without a file, KeyError when the record lacks a key, else
\* the Player built from the record json.load reads
load_game(file) ==
    IF file = None
    THEN None
    ELSE LET data == json_load(file) IN
         IF ~(SchemaFields \subseteq DOMAIN data)
         THEN KeyError
         ELSE Player(data.name, data.player_class, data.level, data.exp, data.max_hp,
                     data.hp, data.base_attack, data.inventory, data.location,
                     data.tasks, data.pomodoro_streak)

\* MudGameGUI.load_game_action: an exception of load_game leaves the handler
\* before anything is assigned
load_game_action(g) ==
    LET loaded_player == load_game(g.save_file) IN
    IF loaded_player = KeyError
    THEN {[g EXCEPT !.last.failed = TRUE, !.last.raised = "KeyError"]}
    ELSE IF loaded_player # None
         THEN {enable_buttons(g1) :
                   g1 \in look_around([g EXCEPT !.player = loaded_player])}
         ELSE {[g EXCEPT !.last.failed = TRUE]}

\* MudGameGUI.save_game_action
save_game_action(g) ==
    IF g.player # None
    THEN {[g EXCEPT !.save_file = save_game(g.player)]}
    ELSE {[g EXCEPT !.last.failed = TRUE]}

-----------------------------------------------------------------------------
(* The state machine *)

\* the current state as one record
State ==
    [player |-> player, room_enemy |-> room_enemy, room_items |-> room_items,
     respawn_timer |-> respawn_timer, auto_move_index |-> auto_move_index,
     pomodoro_running |-> pomodoro_running, pomodoro_in_break |-> pomodoro_in_break,
     pomodoro_seconds_left |-> pomodoro_seconds_left, in_pause |-> in_pause,
     temp_pomodoro_seconds_left |-> temp_pomodoro_seconds_left,
     pending |-> pending, widgets |-> widgets, now |-> now,
     save_file |-> save_file, ops |-> ops, last |-> last]

\* the next state is g
Becomes(g) ==
    /\ player' = g.player
    /\ room_enemy' = g.room_enemy
    /\ room_items' = g.room_items
    /\ respawn_timer' = g.respawn_timer
    /\ auto_move_index' = g.auto_move_index
    /\ pomodoro_running' = g.pomodoro_running
    /\ pomodoro_in_break' = g.pomodoro_in_break
    /\ pomodoro_seconds_left' = g.pomodoro_seconds_left
    /\ in_pause' = g.in_pause
    /\ temp_pomodoro_seconds_left' = g.temp_pomodoro_seconds_left
    /\ pending' = g.pending
    /\ widgets' = g.widgets
    /\ now' = g.now
    /\ save_file' = g.save_file
    /\ ops' = g.ops
    /\ UNCHANGED call
    /\ last' = g.last

\* the observation record at the start of handler op; arg is the argument of
\* the command (of the Pause button: the phase it was pressed in)
Fresh(op) ==
    [op |-> op, arg |-> "", failed |-> FALSE, moves |-> 0, attacks |-> 0, heals |-> 0,
     kills |-> 0, slain |-> None, spawns |-> 0, fell |-> FALSE, ticked |-> FALSE,
     auto |-> FALSE, raised |-> ""]

\* the current state when Tk calls handler op
Begin(op) == [State EXCEPT !.last = Fresh(op), !.ops = @ + 1]

\* one more handler can run
CanAct == ops < MaxOps

\* the rooms init_mobs is explored to seed
SeedRooms == {"outer_courtyard"}

\* a save file written at level `level` by a player of class player_class
SavedAt(player_class, level, exp, hp, inventory) ==
    [name |-> "idleHero", player_class |-> player_class, level |-> level, exp |-> exp,
     max_hp |-> CLASS_STATS[player_class].max_hp + HP_PER_LEVEL * (level - 1),
     hp |-> hp,
     base_attack |-> CLASS_STATS[player_class].base_attack + ATTACK_PER_LEVEL * (level - 1),
     inventory |-> inventory, location |-> "temple_of_stillness",
     tasks |-> [DefaultTasks EXCEPT !.stun_opponent = level > 1],
     pomodoro_streak |-> level \div 10]

\* the save files the program is started with: none; a level-1 mage down to 5 HP;
\* two hurt level-46 warriors (attack 98), one of them 40 exp short of level 47,
\* carrying a potion and with the daily job recorded as done
SaveFiles ==
    {None,
     save_game(SavedAt("mage", 1, 0, 5, <<>>)),
     save_game(SavedAt("warrior", 46, 4500, 540, <<>>)),
     save_game([SavedAt("warrior", 46, 4560, 540, <<"healing_potion">>)
                   EXCEPT !.tasks.complete_daily_job = TRUE])}

\* MudGameGUI.__init__ with init_mobs, on the rooms table as the module builds it
Init ==
    /\ player = None
    /\ \E seeded \in SUBSET SeedRooms :
       \E chosen \in [seeded -> random_choice] :
           room_enemy = [k \in RoomKeys |->
                            IF k \in seeded
                            THEN Enemy(chosen[k].name, chosen[k].hp,
                                       chosen[k].attack_power, chosen[k].exp)
                            ELSE None]
    /\ room_items = [k \in RoomKeys |-> rooms[k].items]
    /\ respawn_timer = [k \in RoomKeys |-> 0]
    /\ auto_move_index = 0
    /\ pomodoro_running = FALSE
    /\ pomodoro_in_break = FALSE
    /\ pomodoro_seconds_left = 0
    /\ in_pause = FALSE
    /\ temp_pomodoro_seconds_left = 0
    /\ pending = <<>>
    /\ widgets = [command_entry |-> TRUE, btn_save |-> FALSE, btn_pomo_start |-> FALSE,
                  btn_pomo_pause |-> FALSE, btn_pomo_stop |-> FALSE]
    /\ now = 0
    /\ save_file \in SaveFiles
    /\ ops = 0
    /\ call = None
    /\ last = Fresh("init")

\* the directions a move command can name
Directions == {"north", "west", "east", "northwest"}

\* execute_command reaches a handler: the entry accepts text and a game is on
CanCommand == CanAct /\ widgets.command_entry /\ player # None

\* execute_command without a game: "You need to start or load a game first."
CmdNoGame ==
    /\ CanAct /\ player = None
    /\ Becomes([Begin("command") EXCEPT !.last.failed = TRUE])

\* execute_command with no text, which is all the Enter button can send while the
\* entry is disabled (the entry was cleared when its last command was read)
CmdEmpty ==
    /\ CanAct /\ player # None
    /\ Becomes([Begin("command") EXCEPT !.last.failed = TRUE])

CmdLook == CanCommand /\ \E g \in look_around(Begin("look")) : Becomes(g)

CmdMove ==
    CanCommand /\ \E direction \in Directions :
                      \E g \in move_player([Begin("move") EXCEPT !.last.arg = direction],
                                                  direction) : Becomes(g)

CmdAttack == CanCommand /\ \E g \in attack_enemy(Begin("attack")) : Becomes(g)

CmdHeal == CanCommand /\ \E g \in heal_player(Begin("heal")) : Becomes(g)

CmdSkill == CanCommand /\ \E g \in use_class_skill(Begin("skill")) : Becomes(g)

CmdPickup ==
    CanCommand /\ \E item_name \in ItemNames :
                      \E g \in pickup_item([Begin("pickup") EXCEPT !.last.arg = item_name],
                                    item_name) : Becomes(g)

CmdDrop ==
    CanCommand /\ \E item_name \in ItemNames :
                      \E g \in drop_item([Begin("drop") EXCEPT !.last.arg = item_name],
                                    item_name) : Becomes(g)

CmdUse ==
    CanCommand /\ \E item_name \in ItemNames :
                      \E g \in use_item([Begin("use") EXCEPT !.last.arg = item_name],
                                    item_name) : Becomes(g)

\* the New Game button
NewGame ==
    CanAct /\ \E class_choice \in ClassChoices :
        \E g \in new_game(Begin("new_game"), "", class_choice) : Becomes(g)

\* the Load Game button
LoadGame == CanAct /\ \E g \in load_game_action(Begin("load_game")) : Becomes(g)

\* the Save Game button
SaveGame ==
    CanAct /\ widgets.btn_save /\ \E g \in save_game_action(Begin("save_game")) : Becomes(g)

\* the Start Pomodoro button
StartPomodoro ==
    /\ CanAct /\ widgets.btn_pomo_start
    /\ \E g \in start_pomodoro(Begin("start")) : Becomes(g)

\* the Pause Pomodoro button; the phase it is pressed in is kept for observation
PausePomodoro ==
    /\ CanAct /\ widgets.btn_pomo_pause
    /\ \E g \in pause_pomodoro([Begin("pause") EXCEPT
                                     !.last.arg = IF pomodoro_in_break
                                                  THEN "break" ELSE "focus"]) :
           Becomes(g)

\* the Stop Pomodoro button
StopPomodoro ==
    CanAct /\ widgets.btn_pomo_stop /\ \E g \in stop_pomodoro(Begin("stop")) : Becomes(g)

\* Tk runs the tick_pomodoro callback that is due
TickPomodoro ==
    /\ CanAct
    /\ pending # <<>>
    /\ Head(pending) <= now
    /\ \E g \in tick_pomodoro([Begin("tick") EXCEPT !.pending = Tail(@)]) : Becomes(g)

\* the instants after now at which something is due: a callback, a respawn
NextEvents ==
    {pending[i] : i \in 1..Len(pending)} \cup {respawn_timer[k] : k \in RoomKeys}

\* time passes until the next instant something is due; no callback runs late
AdvanceTime ==
    /\ pending # <<>> => Head(pending) > now
    /\ \E t \in NextEvents :
           /\ t > now
           /\ \A u \in NextEvents : u > now => t <= u
           /\ now' = t
    /\ UNCHANGED <<player, room_enemy, room_items, respawn_timer, auto_move_index,
                   pomodoro_running, pomodoro_in_break, pomodoro_seconds_left,
                   in_pause, temp_pomodoro_seconds_left, pending, widgets,
                   save_file, ops, call, last>>

Next ==
    \/ CmdNoGame
    \/ CmdEmpty
    \/ CmdLook
    \/ CmdMove
    \/ CmdAttack
    \/ CmdHeal
    \/ CmdSkill
    \/ CmdPickup
    \/ CmdDrop
    \/ CmdUse
    \/ NewGame
    \/ LoadGame
    \/ SaveGame
    \/ StartPomodoro
    \/ PausePomodoro
    \/ StopPomodoro
    \/ TickPomodoro
    \/ AdvanceTime

Spec == Init /\ [][Next]_vars

-----------------------------------------------------------------------------
(* The timer of a game in progress, in any phase of its cycle *)

\* the states start, pause, stop and the ticks leave the timer in, at a time when
\* at most one callback is pending and it is due in one second: never started,
\* counting a focus or a break interval, paused, and stopped
TimerPhases ==
    {[running |-> FALSE, in_break |-> FALSE, seconds_left |-> 0, in_pause |-> FALSE,
      temp |-> 0, pending |-> <<>>]}
    \cup {[running |-> TRUE, in_break |-> b, seconds_left |-> n, in_pause |-> FALSE,
           temp |-> 0, pending |-> <<1>>] :
              b \in BOOLEAN, n \in {0, 1, 2}}
    \cup {[running |-> TRUE, in_break |-> FALSE, seconds_left |-> POMODORO_FOCUS_TIME - 1,
           in_pause |-> FALSE, temp |-> 0, pending |-> <<1>>],
          [running |-> TRUE, in_break |-> TRUE, seconds_left |-> POMODORO_BREAK_TIME,
           in_pause |-> FALSE, temp |-> 0, pending |-> <<1>>]}
    \cup {[running |-> FALSE, in_break |-> FALSE, seconds_left |-> n, in_pause |-> paused,
           temp |-> IF paused THEN n ELSE 0, pending |-> q] :
              n \in {0, 1, 2}, paused \in BOOLEAN, q \in {<<>>, <<1>>}}

\* a loaded game in the start room, with or without a live enemy, and its timer
InitTimer ==
    /\ \E t \in TimerPhases, p \in {SavedAt("mage", 1, 0, 5, <<>>),
                                     SavedAt("warrior", 46, 4560, 570, <<>>)},
          here \in {None} \cup {Enemy(c.name, c.hp, c.attack_power, c.exp) :
                                     c \in random_choice} :
           /\ player = [load_game(save_game(p)) EXCEPT
                            !.pomodoro_streak = IF t.in_break THEN 1 ELSE 0]
           /\ room_enemy = [r \in RoomKeys |->
                               IF r = "temple_of_stillness" THEN here ELSE None]
           /\ respawn_timer = [r \in RoomKeys |->
                                  IF r = "temple_of_stillness" /\ here = None
                                  THEN RESPAWN_TIME ELSE 0]
           /\ pomodoro_running = t.running
           /\ pomodoro_in_break = t.in_break
           /\ pomodoro_seconds_left = t.seconds_left
           /\ in_pause = t.in_pause
           /\ temp_pomodoro_seconds_left = t.temp
           /\ pending = t.pending
    /\ auto_move_index = 0
    /\ room_items = [k \in RoomKeys |-> rooms[k].items]
    /\ widgets = [btn_save |-> TRUE, btn_pomo_start |-> TRUE, btn_pomo_pause |-> TRUE,
                  btn_pomo_stop |-> TRUE, command_entry |-> TRUE]
    /\ now = 0
    /\ save_file = None
    /\ ops = 0
    /\ call = None
    /\ last = Fresh("init")

\* the three timer buttons, the due callbacks and the passing of time
NextTimer ==
    \/ StartPomodoro
    \/ PausePomodoro
    \/ StopPomodoro
    \/ TickPomodoro
    \/ AdvanceTime

SpecTimer == InitTimer /\ [][NextTimer]_vars

-----------------------------------------------------------------------------
(* New game, save and load on a game in progress and on any save file *)

\* the players a game in progress can hold: each class at level 1, at full HP or
\* as a fall leaves it, with or without items (two of a kind, two kinds in either
\* order), with the default tasks or all tasks done and one more key
SavePlayers ==
    {Player("idleHero", c, 1, exp, CLASS_STATS[c].max_hp,
            IF hurt THEN -6 ELSE CLASS_STATS[c].max_hp,
            CLASS_STATS[c].base_attack, inventory, location, tasks, pomodoro_streak) :
        c \in DOMAIN CLASS_STATS, exp \in {0, 40}, hurt \in BOOLEAN,
        inventory \in {<<>>, <<"sword", "sword">>, <<"healing_potion", "sword">>},
        location \in {"temple_of_stillness", "outer_courtyard"},
        tasks \in {None, [complete_daily_job |-> TRUE, drink_from_stream |-> TRUE,
                           stun_opponent |-> TRUE, feed_the_cat |-> FALSE]},
        pomodoro_streak \in {0, 3}}

\* SAVE_FILE before the program starts: missing, written by save_game, or a
\* record that lacks one of the keys load_game reads
SaveRecords ==
    LET saved == save_game(SavedAt("mage", 1, 0, 5, <<"sword", "sword">>)) IN
    {None, saved, save_game(SavedAt("warrior", 46, 4560, 540, <<"healing_potion">>))}
    \cup {json_object([k \in SchemaFields \ {lacking} |-> saved.v[k]]) :
              lacking \in SchemaFields}

\* no game, or a game in progress, and any save file
InitSave ==
    /\ player \in {None} \cup SavePlayers
    /\ save_file \in SaveRecords
    /\ room_enemy = [k \in RoomKeys |-> None]
    /\ room_items = [k \in RoomKeys |-> rooms[k].items]
    /\ respawn_timer = [k \in RoomKeys |-> 0]
    /\ auto_move_index = 0
    /\ pomodoro_running = FALSE
    /\ pomodoro_in_break = FALSE
    /\ pomodoro_seconds_left = 0
    /\ in_pause = FALSE
    /\ temp_pomodoro_seconds_left = 0
    /\ pending = <<>>
    /\ widgets = [command_entry |-> TRUE, btn_save |-> player # None,
                  btn_pomo_start |-> player # None, btn_pomo_pause |-> player # None,
                  btn_pomo_stop |-> player # None]
    /\ now = 0
    /\ ops = 0
    /\ call = None
    /\ last = Fresh("init")

\* the New Game button, with the class name the dialog returned
NewGameAs ==
    CanAct /\ \E class_choice \in ClassChoices :
        \E g \in new_game([Begin("new_game") EXCEPT !.last.arg = class_choice],
                           "", class_choice) : Becomes(g)

NextSave ==
    \/ NewGameAs
    \/ LoadGame
    \/ SaveGame

SpecSave == InitSave /\ [][NextSave]_vars

-----------------------------------------------------------------------------
(* A campaign: a new game in progress, one kill short of its first level-up *)

\* a player of a new game who has defeated one Anti Claws (50 exp, the task is
\* recorded) stands in the start room, at full HP or hurt, before the enemy
\* that respawned there, which is down to 8 HP; the timer was never started
InitCampaign ==
    /\ \E class_choice \in DOMAIN CLASS_STATS, hurt \in BOOLEAN :
           player = [Player("idleHero", class_choice, 1, ENEMY_POOL[1].exp,
                            CLASS_STATS[class_choice].max_hp,
                            IF hurt THEN 30 ELSE CLASS_STATS[class_choice].max_hp,
                            CLASS_STATS[class_choice].base_attack, <<>>,
                            "temple_of_stillness", None, 0)
                        EXCEPT !.tasks.stun_opponent = TRUE]
    /\ room_enemy = [k \in RoomKeys |->
                        IF k = "temple_of_stillness"
                        THEN [Enemy(ENEMY_POOL[1].name, ENEMY_POOL[1].hp,
                                    ENEMY_POOL[1].attack_power, ENEMY_POOL[1].exp)
                                 EXCEPT !.hp = 8]
                        ELSE None]
    /\ room_items = [k \in RoomKeys |-> rooms[k].items]
    /\ respawn_timer = [k \in RoomKeys |->
                           IF k = "temple_of_stillness" THEN 5 + RESPAWN_TIME ELSE 0]
    /\ auto_move_index = 0
    /\ pomodoro_running = FALSE
    /\ pomodoro_in_break = FALSE
    /\ pomodoro_seconds_left = 0
    /\ in_pause = FALSE
    /\ temp_pomodoro_seconds_left = 0
    /\ pending = <<>>
    /\ widgets = [command_entry |-> TRUE, btn_save |-> TRUE, btn_pomo_start |-> TRUE,
                  btn_pomo_pause |-> TRUE, btn_pomo_stop |-> TRUE]
    /\ now = 20
    /\ save_file = None
    /\ ops = 0
    /\ call = None
    /\ last = Fresh("init")

\* every command, button and callback of a game in progress
NextCampaign ==
    \/ CmdEmpty
    \/ CmdLook
    \/ CmdMove
    \/ CmdAttack
    \/ CmdHeal
    \/ CmdSkill
    \/ CmdPickup
    \/ CmdDrop
    \/ CmdUse
    \/ NewGame
    \/ LoadGame
    \/ SaveGame
    \/ StartPomodoro
    \/ PausePomodoro
    \/ StopPomodoro
    \/ TickPomodoro
    \/ AdvanceTime

SpecCampaign == InitCampaign /\ [][NextCampaign]_vars

-----------------------------------------------------------------------------
(* Player.add_experience called directly: the progression of a new player *)

\* the awards add_experience is called with: none, the rewards of ENEMY_POOL,
\* and awards that cross one, two and four thresholds of a level-1 player
ExpAwards == {0, 100, 300, 1000} \cup {ENEMY_POOL[i].exp : i \in 1..Len(ENEMY_POOL)}

\* a player as new_game builds it, with any HP the game can leave
InitExp ==
    /\ \E class_choice \in DOMAIN CLASS_STATS :
       \E hp \in {CLASS_STATS[class_choice].max_hp, 1, -6} :
           player = Player("idleHero", class_choice, 1, 0,
                           CLASS_STATS[class_choice].max_hp, hp,
                           CLASS_STATS[class_choice].base_attack, <<>>,
                           "temple_of_stillness", DefaultTasks, 0)
    /\ room_enemy = [k \in RoomKeys |-> None]
    /\ room_items = [k \in RoomKeys |-> rooms[k].items]
    /\ respawn_timer = [k \in RoomKeys |-> 0]
    /\ auto_move_index = 0
    /\ pomodoro_running = FALSE
    /\ pomodoro_in_break = FALSE
    /\ pomodoro_seconds_left = 0
    /\ in_pause = FALSE
    /\ temp_pomodoro_seconds_left = 0
    /\ pending = <<>>
    /\ widgets = [command_entry |-> TRUE, btn_save |-> FALSE, btn_pomo_start |-> FALSE,
                  btn_pomo_pause |-> FALSE, btn_pomo_stop |-> FALSE]
    /\ now = 0
    /\ save_file = None
    /\ ops = 0
    /\ call = None
    /\ last = Fresh("init")

\* the record of a direct call: the method, the player it was called on, its
\* argument, and the call before it
Called(method, amount) ==
    [method |-> method, self |-> player, amount |-> amount,
     prev |-> IF call = None
              THEN None
              ELSE [method |-> call.method, self |-> call.self, amount |-> call.amount]]

\* player.add_experience(amount)
AddExperience ==
    /\ player.level < MaxLevel
    /\ \E amount \in ExpAwards :
           /\ player' = add_experience(player, amount)
           /\ call' = Called("add_experience", amount)
    /\ UNCHANGED <<room_enemy, room_items, respawn_timer, auto_move_index,
                   pomodoro_running, pomodoro_in_break, pomodoro_seconds_left,
                   in_pause, temp_pomodoro_seconds_left, pending, widgets, now,
                   save_file, ops, last>>

\* player.level_up()
LevelUp ==
    /\ player.level < MaxLevel
    /\ player' = level_up(player)
    /\ call' = Called("level_up", 0)
    /\ UNCHANGED <<room_enemy, room_items, respawn_timer, auto_move_index,
                   pomodoro_running, pomodoro_in_break, pomodoro_seconds_left,
                   in_pause, temp_pomodoro_seconds_left, pending, widgets, now,
                   save_file, ops, last>>

NextExp ==
    \/ AddExperience
    \/ LevelUp

SpecExp == InitExp /\ [][NextExp]_vars

-----------------------------------------------------------------------------
(* A duel: one new game, fought with commands in the start room, no save file *)

InitDuel == Init /\ save_file = None

\* the New Game button, pressed once
DuelNewGame ==
    /\ player = None
    /\ \E class_choice \in ClassChoices :
           \E g \in new_game(Begin("new_game"), "", class_choice) : Becomes(g)

\* one more command can be entered
CanDuel == ops < MaxDuel /\ widgets.command_entry /\ player # None

DuelAttack == CanDuel /\ \E g \in attack_enemy(Begin("attack")) : Becomes(g)

DuelSkill == CanDuel /\ \E g \in use_class_skill(Begin("skill")) : Becomes(g)

NextDuel ==
    \/ DuelNewGame
    \/ DuelAttack
    \/ DuelSkill

SpecDuel == InitDuel /\ [][NextDuel]_vars

-----------------------------------------------------------------------------
(* A walk: the timer is started in a game in progress and ticks on its own *)

\* the rooms that moves from the start room lead to
RECURSIVE ReachableFrom(_)
ReachableFrom(seen) ==
    LET more == seen \cup UNION {{rooms[k].exits[d] : d \in DOMAIN rooms[k].exits} :
                                      k \in seen}
    IN  IF more = seen THEN seen ELSE ReachableFrom(more)

\* the players of a game in progress: the loaded level-46 warrior, hurt or
\* healed, and the loaded level-1 mage
WalkPlayers ==
    {SavedAt("warrior", 46, 4560, 540, <<"healing_potion">>),
     SavedAt("warrior", 46, 4560, 570, <<"healing_potion">>),
     SavedAt("mage", 1, 0, 5, <<>>)}

\* a game in progress with the timer idle: the player stands in a room of the
\* map with the auto-move cursor anywhere; the room holds a live enemy or one
\* was just killed in it; the other rooms are as at the start ("fresh"), hold
\* an enemy each ("populated") or were just cleared ("cleared")
InitWalk ==
    /\ \E k \in ReachableFrom({"temple_of_stillness"}), p \in WalkPlayers,
          here \in {None} \cup {Enemy(c.name, c.hp, c.attack_power, c.exp) :
                                     c \in random_choice},
          world \in {"fresh", "populated", "cleared"} :
           /\ player = [load_game(save_game(p)) EXCEPT !.location = k]
           /\ room_enemy =
                  [r \in RoomKeys |->
                      IF r = k THEN here
                      ELSE IF world = "populated"
                           THEN Enemy(ENEMY_POOL[1].name, ENEMY_POOL[1].hp,
                                      ENEMY_POOL[1].attack_power, ENEMY_POOL[1].exp)
                           ELSE None]
           /\ respawn_timer =
                  [r \in RoomKeys |->
                      IF (r = k /\ here = None) \/ (r # k /\ world = "cleared")
                      THEN RESPAWN_TIME ELSE 0]
    /\ auto_move_index \in 0..(Len(auto_move_directions) - 1)
    /\ room_items = [k \in RoomKeys |-> rooms[k].items]
    /\ pomodoro_running = FALSE
    /\ pomodoro_in_break = FALSE
    /\ pomodoro_seconds_left = 0
    /\ in_pause = FALSE
    /\ temp_pomodoro_seconds_left = 0
    /\ pending = <<>>
    /\ widgets = [command_entry |-> TRUE, btn_save |-> TRUE, btn_pomo_start |-> TRUE,
                  btn_pomo_pause |-> TRUE, btn_pomo_stop |-> TRUE]
    /\ now = 0
    /\ save_file = None
    /\ ops = 0
    /\ call = None
    /\ last = Fresh("init")

\* one more timer handler can run
CanWalk == ops < MaxWalk

\* the Start Pomodoro button
WalkStart ==
    /\ CanWalk /\ widgets.btn_pomo_start /\ ~pomodoro_running
    /\ \E g \in start_pomodoro(Begin("start")) : Becomes(g)

\* Tk runs the tick_pomodoro callback that is due
WalkTick ==
    /\ CanWalk
    /\ pending # <<>>
    /\ Head(pending) <= now
    /\ \E g \in tick_pomodoro([Begin("tick") EXCEPT !.pending = Tail(@)]) : Becomes(g)

NextWalk ==
    \/ WalkStart
    \/ WalkTick
    \/ AdvanceTime

SpecWalk == InitWalk /\ [][NextWalk]_vars

-----------------------------------------------------------------------------
(* A stay: a new game whose timer is started and ticks on its own until a tick
   moves the player out of the start room *)

\* the program is started without a save file and init_mobs has seeded no room
InitStay == InitDuel /\ room_enemy = [k \in RoomKeys |-> None]

\* a tick has moved the player
Moved == last.auto /\ last.moves = 1

\* one more handler of the stay can run
CanStay == ops < MaxStay /\ ~Moved

\* the Start Pomodoro button, pressed once in the new game
StayStart ==
    /\ CanStay /\ player # None /\ widgets.btn_pomo_start /\ ~pomodoro_running
    /\ \E g \in start_pomodoro(Begin("start")) : Becomes(g)

\* Tk runs the tick_pomodoro callback that is due
StayTick ==
    /\ CanStay
    /\ pending # <<>>
    /\ Head(pending) <= now
    /\ \E g \in tick_pomodoro([Begin("tick") EXCEPT !.pending = Tail(@)]) : Becomes(g)

NextStay ==
    \/ DuelNewGame
    \/ StayStart
    \/ StayTick
    \/ AdvanceTime

\* Tk's main loop: time passes until a callback is due, and the callback runs
MainLoop == StayTick \/ AdvanceTime

SpecStay == InitStay /\ [][NextStay]_vars /\ WF_vars(MainLoop)

-----------------------------------------------------------------------------
(* A roam: a new game whose timer is started and ticks on its own, followed
   until a tick brings the player back to a room it has cleared before *)

\* the class of the roaming player: the class only sets how long the fights
\* last, and the mage's are the shortest
RoamClasses == {"mage"}

\* the New Game button, pressed once
RoamNewGame ==
    /\ player = None
    /\ \E class_choice \in RoamClasses :
           \E g \in new_game(Begin("new_game"), "", class_choice) : Becomes(g)

\* a tick has moved the player into a room whose enemy it killed on an earlier
\* visit (handle_mob_death has set the room's respawn deadline)
Returned == Moved /\ respawn_timer[player.location] > 0

\* one more handler of the roam can run
CanRoam == ops < MaxRoam /\ ~Returned

\* the Start Pomodoro button, pressed once in the new game
RoamStart ==
    /\ CanRoam /\ player # None /\ widgets.btn_pomo_start /\ ~pomodoro_running
    /\ pending = <<>>
    /\ \E g \in start_pomodoro(Begin("start")) : Becomes(g)

\* Tk runs the tick_pomodoro callback that is due
RoamTick ==
    /\ CanRoam
    /\ pending # <<>>
    /\ Head(pending) <= now
    /\ \E g \in tick_pomodoro([Begin("tick") EXCEPT !.pending = Tail(@)]) : Becomes(g)

NextRoam ==
    \/ RoamNewGame
    \/ RoamStart
    \/ RoamTick
    \/ AdvanceTime

\* Tk's main loop: time passes until a callback is due, and the callback runs
RoamLoop == RoamTick \/ AdvanceTime

SpecRoam == InitStay /\ [][NextRoam]_vars /\ WF_vars(RoamLoop)

-----------------------------------------------------------------------------
(* Properties *)

\* a handler has run in this step
HandlerStep == ops' = ops + 1

\* this step ran auto_move_and_attack (a timer tick during focus)
AutomationStep == HandlerStep /\ last'.auto

\* this step ran an exchange that defeated the enemy of the room the player ends in
KillStep == HandlerStep /\ last'.kills = 1

\* C1: whenever add_experience has returned the player's experience is at least 0
\* and below the threshold level * 100 of the level reached, whatever the award
C1_ExpBelowThreshold ==
    player # None => player.exp >= 0 /\ player.exp < player.level * 100

\* C1 witness: one call of add_experience has crossed several thresholds
C1_Witness ==
    /\ call # None
    /\ call.method = "add_experience"
    /\ player.level >= call.self.level + 2

\* C2: a tick that starts with a live enemy in the current room, or with HP below
\* max HP, leaves the player's location unchanged
C2_TickStaysPut ==
    [][(/\ AutomationStep
        /\ \/ is_alive(room_enemy[player.location])
           \/ player.hp < player.max_hp)
       => player'.location = player.location]_vars

\* C2 witness: a tick has healed the player (no live enemy, HP below max) in place
C2_Witness ==
    /\ last.auto
    /\ last.heals = 1
    /\ last.attacks = 0
    /\ last.moves = 0

\* C3: the player's HP never exceeds max HP
C3_HpAtMostMax == player # None => player.hp <= player.max_hp

\* C3 witness: a healing potion has been drunk and has filled the HP up to max HP
C3_Witness ==
    /\ last.op = "use"
    /\ last.heals = 1
    /\ player.hp = player.max_hp

\* C4: between operations, in every state the Save button can save, the player's
\* HP is within 0..max_hp
C4_HpWithinSchema ==
    (player # None /\ widgets.btn_save)
        => player.hp >= 0 /\ player.hp <= player.max_hp

\* C5: a basic attack in which the retaliation leaves HP <= 0 returns with HP equal
\* to max HP and with the game still accepting commands
C5_FallenRestoredFully ==
    (last.fell /\ last.op \in {"attack", "tick", "start"})
        => player.hp = player.max_hp /\ widgets.command_entry

\* C6: a room without a live enemy comes to hold one only in a step that runs
\* maybe_respawn_mob on it (a look or an entry) at or after its respawn deadline,
\* and a kill sets that deadline to the time of the kill plus RESPAWN_TIME
C6_NoEnemyBeforeDeadline ==
    [][/\ \A k \in {r \in RoomKeys : room_enemy'[r] # room_enemy[r]} :
             (~is_alive(room_enemy[k]) /\ is_alive(room_enemy'[k]))
                 => /\ now >= respawn_timer[k]
                    /\ HandlerStep
                    /\ last'.spawns = 1
                    /\ player'.location = k
       /\ KillStep => /\ ~is_alive(room_enemy'[player'.location])
                      /\ respawn_timer'[player'.location] = now + RESPAWN_TIME]_vars

\* C6 witness: a room whose enemy was killed holds a new one after its deadline
C6_Witness ==
    \E k \in RoomKeys :
        /\ respawn_timer[k] >= RESPAWN_TIME
        /\ now >= respawn_timer[k]
        /\ is_alive(room_enemy[k])
        /\ last.spawns = 1

\* C7: an exchange that brings the enemy's HP to <= 0 awards exactly that enemy's
\* reward through add_experience, sets stun_opponent, marks the enemy not alive,
\* clears the room's enemy reference and sets the room's respawn deadline to the
\* current time plus 10
C7_KillEffects ==
    [][KillStep =>
         LET k == player'.location IN
         /\ last'.slain # None
         /\ last'.slain.hp <= 0
         /\ ~last'.slain.alive
         /\ room_enemy'[k] = None
         /\ respawn_timer'[k] = now + 10
         /\ player' = [add_experience([player EXCEPT !.location = k],
                                      last'.slain.exp_reward)
                           EXCEPT !.tasks.stun_opponent = TRUE]]_vars

\* C7 witness: a skill attack has defeated an enemy and the award has levelled up
C7_Witness ==
    /\ last.op = "skill"
    /\ last.kills = 1
    /\ player.exp < 50
    /\ room_enemy[player.location] = None

\* C8: on a killing blow the enemy does not retaliate and nothing heals: HP is
\* not lower than before, and it differs only if the award has levelled up
C8_NoRetaliationOnKill ==
    [][KillStep =>
         /\ player'.hp >= player.hp
         /\ last'.heals = 0
         /\ ~last'.fell
         /\ player'.hp # player.hp => player'.level > player.level]_vars

\* C8 witness: an enemy has been defeated and the player is still hurt
C8_Witness ==
    /\ last.kills = 1
    /\ last.attacks = 1
    /\ player.hp < player.max_hp

\* C9: between operations every enemy a room holds is live: alive and HP > 0
C9_RoomEnemyLive ==
    \A k \in RoomKeys :
        room_enemy[k] # None => room_enemy[k].alive /\ room_enemy[k].hp > 0

\* C9 witness: an enemy has survived an exchange with 10 HP or less
C9_Witness ==
    /\ last.attacks = 1
    /\ last.kills = 0
    /\ room_enemy[player.location] # None
    /\ room_enemy[player.location].hp <= 10

\* the game is over: use_class_skill has disabled the command entry and the Start
\* button, and no new game or load has enabled the buttons again
Terminal == ~widgets.command_entry /\ ~widgets.btn_pomo_start

C11_DamageRanges ==
    [][(HandlerStep /\ last'.attacks = 1) =>
         LET k == player.location
             before == room_enemy[k]
             after == IF last'.kills = 1 THEN last'.slain ELSE room_enemy'[k]
             lost == before.hp - after.hp
             hurt == player.hp - player'.hp
             lowest == IF player.base_attack - 2 < 0 THEN 0 ELSE player.base_attack - 2
         IN  /\ last'.op = "attack" => lost \in lowest..(player.base_attack + 2)
             /\ last'.op = "skill" => lost \in 10..15
             /\ last'.kills = 0 =>
                    IF last'.fell /\ last'.op = "attack"
                    THEN \E dmg \in 1..before.attack_power, heal \in 5..15 :
                             /\ dmg >= player.hp
                             /\ player'.hp = player.hp - dmg + heal
                    ELSE hurt \in 1..before.attack_power]_vars

\* C11 witness: a skill attack of a rogue has been answered by a retaliation
C11_Witness ==
    /\ last.op = "skill"
    /\ last.attacks = 1
    /\ last.kills = 0
    /\ player.player_class = "rogue"
    /\ player.hp < player.max_hp

\* C12: a call of level_up raises the level by 1, max HP by 10 and base attack by
\* 2, sets current HP to the new max HP whatever it was, and changes nothing else
C12_LevelUpOneLevel ==
    (call # None /\ call.method = "level_up")
        => player = [call.self EXCEPT !.level = @ + 1,
                                      !.max_hp = @ + 10,
                                      !.base_attack = @ + 2,
                                      !.hp = call.self.max_hp + 10]

\* C12 witness: level_up has been called on a player whose HP was not above 0
C12_Witness ==
    /\ call # None
    /\ call.method = "level_up"
    /\ call.self.hp <= 0
    /\ player.hp = player.max_hp

\* C13: add_experience(a) followed at once by add_experience(b) leaves the player
\* as the single call add_experience(a + b) on the same player would
C13_AwardsAdd ==
    (/\ call # None
     /\ call.method = "add_experience"
     /\ call.prev # None
     /\ call.prev.method = "add_experience")
        => player = add_experience(call.prev.self, call.prev.amount + call.amount)

\* C13 witness: two calls in a row have each levelled the player up
C13_Witness ==
    /\ call # None
    /\ call.method = "add_experience"
    /\ call.prev # None
    /\ call.prev.method = "add_experience"
    /\ call.self.level > call.prev.self.level
    /\ player.level > call.self.level

\* C14: within one game (no step that starts a new game or loads one) the
\* player's level, max HP and base attack never decrease from a state to the next
C14_StatsNeverDecrease ==
    [][(/\ player # None
        /\ player' # None
        /\ ~(HandlerStep /\ last'.op \in {"new_game", "load_game"}))
           => /\ player'.level >= player.level
              /\ player'.max_hp >= player.max_hp
              /\ player'.base_attack >= player.base_attack]_vars

\* C14 witness: a kill has levelled the loaded level-46 player up
C14_Witness ==
    /\ player # None
    /\ last.kills = 1
    /\ player.level = 47
    /\ player.max_hp = 580
    /\ player.base_attack = 100

\* the state of the program but for the clock: the player, the rooms, the timer,
\* the widgets and the save file
GameVars ==
    <<player, room_enemy, room_items, respawn_timer, auto_move_index,
      pomodoro_running, pomodoro_in_break, pomodoro_seconds_left, in_pause,
      temp_pomodoro_seconds_left, pending, widgets, save_file>>

\* C15: an attack or skill command entered when the current room holds no live
\* enemy changes nothing: not the player, nor a room, nor the timer
C15_NothingToAttack ==
    [][(/\ HandlerStep
        /\ last'.op \in {"attack", "skill"}
        /\ ~is_alive(room_enemy[player.location]))
           => UNCHANGED GameVars]_vars

\* C15 witness: an attack found nothing in a room whose enemy can respawn
C15_Witness ==
    /\ last.op = "attack"
    /\ last.failed
    /\ room_enemy[player.location] = None
    /\ now >= respawn_timer[player.location]

\* C16: a move in a direction that is no exit of the current room, a pickup of an
\* item that is not in the room, and a drop or use of an item that is not in the
\* inventory change nothing: not the player, nor a room's items, enemy or respawn
\* deadline, nor the timer
C16_FailedCommandNoChange ==
    [][(/\ HandlerStep
        /\ \/ /\ last'.op = "move"
              /\ last'.arg \notin DOMAIN rooms[player.location].exits
           \/ /\ last'.op = "pickup"
              /\ ~Contains(room_items[player.location], last'.arg)
           \/ /\ last'.op \in {"drop", "use"}
              /\ ~Contains(player.inventory, last'.arg))
           => UNCHANGED GameVars]_vars

\* C16 witness: a move has failed in a room whose enemy was due to respawn
C16_Witness ==
    /\ last.op = "move"
    /\ last.failed
    /\ room_enemy[player.location] = None
    /\ now >= respawn_timer[player.location]

\* C17: a new game starts with stun_opponent false; after any other handler the
\* flag is true exactly if it was true before or the handler's exchange (basic
\* or skill) has killed an enemy: it turns true with the first kill and stays true
C17_StunOnFirstKill ==
    [][/\ (HandlerStep /\ last'.op = "new_game")
              => ~player'.tasks.stun_opponent
       /\ (HandlerStep /\ last'.op # "new_game" /\ player # None /\ player' # None)
              => (player'.tasks.stun_opponent
                     <=> (player.tasks.stun_opponent \/ last'.kills = 1))]_vars

\* C17 witness: in a game started new, a skill attack has made the first kill
C17_Witness ==
    /\ player # None
    /\ last.op = "skill"
    /\ last.kills = 1
    /\ player.tasks.stun_opponent
    /\ player.exp = 50

\* C18: in one automation tick the player's location changes at most once and at
\* most one attack-or-heal action is performed
C18_OneActionPerTick ==
    last.auto => last.moves <= 1 /\ last.attacks + last.heals <= 1

\* the direction probed i positions after the cursor
ProbedDirection(i) ==
    auto_move_directions[((auto_move_index + i) % Len(auto_move_directions)) + 1]

\* the probes, counted from the cursor, that name an exit of the player's room
MatchingProbes ==
    {i \in 0..(Len(auto_move_directions) - 1) :
        ProbedDirection(i) \in DOMAIN rooms[player.location].exits}

\* C19: a tick that starts with no live enemy in the room and full HP moves the
\* player through the first exit found probing north, west, east, south cyclically
\* from the cursor and leaves the cursor one past the match; with no match the
\* location is unchanged; with the cursor at north and a north exit it moves north
C19_FirstExitInCyclicOrder ==
    [][(/\ AutomationStep
        /\ ~is_alive(room_enemy[player.location])
        /\ player.hp >= player.max_hp)
       => /\ MatchingProbes = {} => player'.location = player.location
          /\ \A i \in MatchingProbes :
                (\A o \in MatchingProbes : i <= o)
                => /\ player'.location =
                          rooms[player.location].exits[ProbedDirection(i)]
                   /\ auto_move_index' =
                          (auto_move_index + i + 1) % Len(auto_move_directions)
                   /\ last'.moves = 1
          /\ (/\ auto_move_index = 0
              /\ "north" \in DOMAIN rooms[player.location].exits)
             => player'.location = rooms[player.location].exits["north"]]_vars

\* C19 witness: a tick has moved the player west out of a room that has neither a
\* north nor a south exit, and the cursor is one past west, at east
C19_Witness ==
    /\ last.auto /\ last.moves = 1
    /\ auto_move_index = 2
    /\ \E k \in RoomKeys :
          /\ "south" \notin DOMAIN rooms[k].exits
          /\ "north" \notin DOMAIN rooms[k].exits
          /\ "west" \in DOMAIN rooms[k].exits
          /\ rooms[k].exits["west"] = player.location

\* one basic-attack exchange of the player, as it is before this step, against the
\* live enemy met has left what the room holds now: nothing, the enemy being the
\* one slain, or the same enemy with its HP lower by calculate_attack - 2 .. + 2
ExchangedWith(met, k) ==
    IF last'.kills = 1
    THEN /\ room_enemy'[k] = None
         /\ last'.slain.name = met.name
         /\ last'.slain.hp <= 0
         /\ last'.slain.hp >= met.hp - (calculate_attack(player) + 2)
    ELSE /\ is_alive(room_enemy'[k])
         /\ \E player_damage \in (calculate_attack(player) - 2)
                                    ..(calculate_attack(player) + 2) :
               room_enemy'[k] = [met EXCEPT !.hp = @ - player_damage]

\* C20: when a tick moves the player and the room entered holds a live enemy after
\* entry, already present or spawned by the respawn check on entry, exactly one
\* basic-attack exchange against that enemy happens in the same tick; when it holds
\* no live enemy nothing is attacked
C20_ChainedAttackAfterMove ==
    [][(AutomationStep /\ last'.moves = 1)
       => LET dest == player'.location IN
          /\ \A r \in RoomKeys \ {dest} : room_enemy'[r] = room_enemy[r]
          /\ IF is_alive(room_enemy[dest])
             THEN /\ last'.spawns = 0
                  /\ last'.attacks = 1
                  /\ ExchangedWith(room_enemy[dest], dest)
             ELSE IF last'.spawns = 1
                  THEN /\ last'.attacks = 1
                       /\ \E i \in DOMAIN ENEMY_POOL :
                             ExchangedWith(Enemy(ENEMY_POOL[i].name, ENEMY_POOL[i].hp,
                                                 ENEMY_POOL[i].attack_power,
                                                 ENEMY_POOL[i].exp), dest)
                  ELSE /\ last'.attacks = 0
                       /\ last'.kills = 0
                       /\ room_enemy'[dest] = room_enemy[dest]]_vars

\* C20 witness: a tick has moved the player into a room whose enemy was spawned on
\* entry, and has attacked that enemy once without defeating it
C20_Witness ==
    /\ last.auto /\ last.moves = 1 /\ last.spawns = 1
    /\ last.attacks = 1 /\ last.kills = 0
    /\ is_alive(room_enemy[player.location])

\* the timer's state
TimerVars ==
    <<pomodoro_running, pomodoro_in_break, pomodoro_seconds_left, in_pause,
      temp_pomodoro_seconds_left, pending>>

\* C21: the heal action (a heal command, or a tick that starts with no live enemy
\* in the room and HP below max) sets HP to min(hp + k, max_hp) for a k in 5..15
\* and changes nothing else of the player, the cursor or the rooms; a heal command
\* at full HP changes nothing at all
C21_HealEffect ==
    [][(/\ HandlerStep
        /\ \/ last'.op = "heal"
           \/ /\ last'.auto
              /\ ~is_alive(room_enemy[player.location])
              /\ player.hp < player.max_hp)
       => IF player.hp >= player.max_hp
          THEN UNCHANGED GameVars
          ELSE /\ \E k \in 5..15 :
                    player' = [player EXCEPT !.hp = IF player.hp + k < player.max_hp
                                                    THEN player.hp + k
                                                    ELSE player.max_hp]
               /\ UNCHANGED <<room_enemy, room_items, respawn_timer, auto_move_index,
                              widgets, save_file>>
               /\ last'.op = "heal" => UNCHANGED TimerVars]_vars

\* C21 witness: a heal has stopped at max_hp: a mage one or two points below its
\* 80 HP has healed by at least 5
C21_Witness ==
    /\ player # None
    /\ last.heals = 1 /\ last.attacks = 0
    /\ player.hp = player.max_hp
    /\ player.player_class = "mage" /\ player.level = 1

\* the enemies Room.spawn_enemy can create: one per template of ENEMY_POOL
PoolEnemies ==
    {Enemy(ENEMY_POOL[i].name, ENEMY_POOL[i].hp, ENEMY_POOL[i].attack_power,
           ENEMY_POOL[i].exp) : i \in DOMAIN ENEMY_POOL}

\* C22: a look, or a move command that succeeds, runs maybe_respawn_mob on the room
\* the player is in afterwards: a room with a live enemy keeps it with its HP; a
\* room without one gets a new enemy with a pool template's stats exactly if the
\* time is at or past the room's respawn deadline; no other room changes
C22_LazyRespawn ==
    [][(/\ HandlerStep
        /\ \/ last'.op = "look"
           \/ last'.op = "move" /\ ~last'.failed)
       => LET k == player'.location IN
          /\ \A r \in RoomKeys \ {k} : room_enemy'[r] = room_enemy[r]
          /\ UNCHANGED respawn_timer
          /\ IF is_alive(room_enemy[k])
             THEN room_enemy'[k] = room_enemy[k] /\ last'.spawns = 0
             ELSE IF now >= respawn_timer[k]
                  THEN room_enemy'[k] \in PoolEnemies /\ last'.spawns = 1
                  ELSE room_enemy'[k] = room_enemy[k] /\ last'.spawns = 0]_vars

\* C22 witness: a look has kept a live enemy that an exchange had already hurt,
\* in a room whose respawn deadline has passed
C22_Witness ==
    /\ last.op = "look"
    /\ last.spawns = 0
    /\ is_alive(room_enemy[player.location])
    /\ room_enemy[player.location] \notin PoolEnemies
    /\ now >= respawn_timer[player.location]

C24_SaveLoadRoundTrip ==
    [][(/\ HandlerStep /\ last'.op = "save_game" /\ player # None
        /\ player.player_class \in {"warrior", "mage", "rogue"}
        /\ {"complete_daily_job", "drink_from_stream", "stun_opponent"}
               \subseteq DOMAIN player.tasks)
       => /\ save_file' # None
          /\ DOMAIN load_game(save_file') = SchemaFields
          /\ \A f \in SchemaFields : load_game(save_file')[f] = player[f]]_vars

\* C24 witness: a player carrying two swords has been saved, and loading the file
\* gives a player with the same two entries
C24_Witness ==
    /\ last.op = "save_game"
    /\ player # None
    /\ save_file # None
    /\ player.inventory = <<"sword", "sword">>
    /\ load_game(save_file).inventory = <<"sword", "sword">>

\* C25: loading a record that lacks one of the eleven fields raises an error: no
\* player is built, the player in memory and everything else stay as they were;
\* a missing save file gives the no-save outcome instead, without an error
C25_MalformedSaveRejected ==
    [][(HandlerStep /\ last'.op = "load_game")
       => /\ (save_file # None /\ ~(SchemaFields \subseteq DOMAIN save_file.v))
              => /\ last'.raised = "KeyError"
                 /\ UNCHANGED GameVars
          /\ save_file = None
              => /\ last'.raised = ""
                 /\ last'.failed
                 /\ UNCHANGED GameVars]_vars

\* C25 witness: a load of a record lacking a field has raised while a game was in
\* progress
C25_Witness ==
    /\ last.op = "load_game"
    /\ last.raised = "KeyError"
    /\ player # None
    /\ save_file # None

\* C26: a new game creates a level-1 player with exp 0, full HP, the max HP and
\* base attack of the class named (warrior 120/8, mage 80/12, rogue 100/10), an
\* empty inventory, in the start room, with the three task flags false and streak
\* 0; no class name, or one that is not of the table, gives a warrior
C26_NewGamePlayer ==
    [][(HandlerStep /\ last'.op = "new_game")
       => LET named == lower(last'.arg)
              class == IF named \in {"warrior", "mage", "rogue"} THEN named
                       ELSE "warrior"
              max_hp == [warrior |-> 120, mage |-> 80, rogue |-> 100][class]
              base_attack == [warrior |-> 8, mage |-> 12, rogue |-> 10][class]
          IN  player' = [name |-> "idleHero", player_class |-> class, level |-> 1,
                         exp |-> 0, max_hp |-> max_hp, hp |-> max_hp,
                         base_attack |-> base_attack, inventory |-> <<>>,
                         location |-> "temple_of_stillness",
                         tasks |-> [complete_daily_job |-> FALSE,
                                    drink_from_stream |-> FALSE,
                                    stun_opponent |-> FALSE],
                         pomodoro_streak |-> 0]]_vars

\* C26 witness: a new game with a class name that is not of the table has made a
\* warrior
C26_Witness ==
    /\ last.op = "new_game"
    /\ last.arg = "bard"
    /\ player.player_class = "warrior"
    /\ player.hp = 120

\* C27: no command and no tick changes the flags complete_daily_job and
\* drink_from_stream: a new game starts with both false, a load takes both from
\* the save file, and every other handler leaves both as they are
C27_PlaceholderTasksKept ==
    [][(HandlerStep /\ player' # None)
       => LET flags == {"complete_daily_job", "drink_from_stream"} IN
          IF last'.op = "new_game"
          THEN \A f \in flags : ~player'.tasks[f]
          ELSE IF last'.op = "load_game" /\ ~last'.failed
               THEN \A f \in flags : player'.tasks[f] = json_load(save_file).tasks[f]
               ELSE \A f \in flags : player'.tasks[f] = player.tasks[f]]_vars

\* C27 witness: a game loaded with the daily job done has killed an enemy, and the
\* daily job is still done and the stream still not drunk from
C27_Witness ==
    /\ player # None
    /\ last.kills = 1
    /\ player.tasks.complete_daily_job
    /\ ~player.tasks.drink_from_stream

\* C28: every room of the rooms table, cavern_1 and with it the cavern network
\* included, can be reached from temple_of_stillness by moves through exits
C28_EveryRoomReachable ==
    (player # None /\ player.location = "temple_of_stillness")
        => /\ "cavern_1" \in ReachableFrom({player.location})
           /\ ReachableFrom({player.location}) = RoomKeys

\* C29: whatever the start, pause and stop actions and the callbacks run so far,
\* at most one tick_pomodoro callback is pending
C29_OneCallbackPending == Len(pending) <= 1

\* C30: once the timer runs in a new game, whatever the draws, a tick that changes
\* the location always follows, and it starts from a state in which the room's
\* enemy has been killed and HP has reached max
C30_NeverStuck ==
    /\ [][(AutomationStep /\ last'.moves = 1)
             => /\ ~is_alive(room_enemy[player.location])
                /\ player.hp = player.max_hp]_vars
    /\ []<>(~pomodoro_running \/ Moved)

\* C30 witness: a tick has moved the player out of the start room after forty
\* ticks or more of fighting and healing there
C30_Witness ==
    /\ Moved
    /\ ops >= 40
    /\ player.location # "temple_of_stillness"

\* the rooms that moves in the directions of auto_move_directions lead to
RECURSIVE CardinalFrom(_)
CardinalFrom(seen) ==
    LET cardinal == {auto_move_directions[i] : i \in 1..Len(auto_move_directions)}
        more == seen \cup UNION {{rooms[k].exits[d] :
                                      d \in DOMAIN rooms[k].exits \cap cardinal} :
                                      k \in seen}
    IN  IF more = seen THEN seen ELSE CardinalFrom(more)

RoamOrbit ==
    {<<"temple_of_stillness", 0>>, <<"outer_courtyard", 3>>,
     <<"castle_entrance", 1>>, <<"outer_courtyard", 0>>}

C32_StatsTiedToLevel ==
    player # None =>
        /\ player.player_class \in DOMAIN CLASS_STATS
        /\ player.level >= 1
        /\ player.max_hp = CLASS_STATS[player.player_class].max_hp
                               + HP_PER_LEVEL * (player.level - 1)
        /\ player.base_attack = CLASS_STATS[player.player_class].base_attack
                                    + ATTACK_PER_LEVEL * (player.level - 1)

\* C32 witness: a kill in a handler has taken the player of the new game to level 2
C32_Witness ==
    /\ player # None
    /\ player.level = 2
    /\ last.kills = 1
    /\ last.op \in {"attack", "skill", "tick", "start"}

\* C33: when Start Pomodoro is pressed right after a successful Pause Pomodoro,
\* the timer runs again in the phase (focus or break) the pause interrupted, and
\* counts on from the seconds left at the pause (the start handler runs the first
\* tick itself, which takes one second off).
C33_PauseResumes ==
    [][(/\ HandlerStep
        /\ last.op = "pause" /\ ~last.failed
        /\ last'.op = "start" /\ ~last'.failed
        /\ temp_pomodoro_seconds_left > 0)
           => /\ pomodoro_running'
              /\ pomodoro_in_break' = (last.arg = "break")
              /\ pomodoro_seconds_left' = temp_pomodoro_seconds_left - 1]_vars

\* this step is a handler that finds a running countdown at zero: a callback of
\* the running timer, or Start Pomodoro resuming a countdown paused at zero
CountdownEnds ==
    /\ HandlerStep
    /\ \/ last'.op = "tick" /\ pomodoro_running /\ pomodoro_seconds_left = 0
       \/ /\ last'.op = "start" /\ ~last'.failed
          /\ in_pause /\ temp_pomodoro_seconds_left = 0

\* the countdown this handler finds is a break's: the timer is in its break, or
\* Start Pomodoro resumes the break that the Pause just before it interrupted
InBreakCountdown ==
    \/ last'.op = "tick" /\ pomodoro_in_break
    \/ last'.op = "start" /\ last.op = "pause" /\ ~last.failed /\ last.arg = "break"

\* C34: the streak of the player grows by exactly 1 in a handler that finds the
\* countdown of a focus interval at zero while the timer runs, and no other handler
\* of the timer changes it: not the end of a break, not a pause, not a stop, not a
\* tick that fights, heals or moves.
C34_StreakCountsFocus ==
    [][HandlerStep =>
          player'.pomodoro_streak =
              IF CountdownEnds /\ ~InBreakCountdown
              THEN player.pomodoro_streak + 1
              ELSE player.pomodoro_streak]_vars

\* how many times x occurs in the list s
ItemCount(s, x) == Cardinality({i \in DOMAIN s : s[i] = x})

\* how many times x occurs in the item lists of the rooms ks
RECURSIVE HeldIn(_, _, _)
HeldIn(items, ks, x) ==
    IF ks = {}
    THEN 0
    ELSE LET k == CHOOSE r \in ks : TRUE
         IN  ItemCount(items[k], x) + HeldIn(items, ks \ {k}, x)

\* the list t is the list s without one occurrence of x
OneTaken(s, t, x) ==
    \E i \in DOMAIN s :
        /\ s[i] = x
        /\ t = SubSeq(s, 1, i - 1) \o SubSeq(s, i + 1, Len(s))

\* C35: a successful pickup takes exactly one occurrence of the item out of the
\* current room's list and appends it to the inventory; a successful drop takes
\* one occurrence out of the inventory and appends it to the room's list; a use
\* leaves the rooms alone and takes one healing potion out of the inventory, or
\* nothing; and every other handler of a game in progress (a failed pickup or
\* drop, look, move, attack, heal, skill, save, the timer's buttons and ticks)
\* leaves every item name as often in rooms and inventory together as before.
\* new_game and load_game_action replace the player and its inventory.
C35_ItemsConserved ==
    [][(/\ HandlerStep /\ player # None /\ player' # None
        /\ last'.op \notin {"new_game", "load_game"})
           => LET k == player.location
                  changed == {r \in RoomKeys : room_items'[r] # room_items[r]}
                  names == ItemNames
                             \cup {player.inventory[i] : i \in DOMAIN player.inventory}
                             \cup {player'.inventory[i] : i \in DOMAIN player'.inventory}
                             \cup UNION {{room_items[r][i] : i \in DOMAIN room_items[r]}
                                            \cup {room_items'[r][i] :
                                                      i \in DOMAIN room_items'[r]} :
                                          r \in changed}
                  held(x) == HeldIn(room_items, changed, x)
                                + ItemCount(player.inventory, x)
                  held_after(x) == HeldIn(room_items', changed, x)
                                      + ItemCount(player'.inventory, x)
              IN  /\ (last'.op = "pickup" /\ ~last'.failed)
                         => /\ player'.location = k
                            /\ changed = {k}
                            /\ OneTaken(room_items[k], room_items'[k], last'.arg)
                            /\ player'.inventory = Append(player.inventory, last'.arg)
                  /\ (last'.op = "drop" /\ ~last'.failed)
                         => /\ player'.location = k
                            /\ changed = {k}
                            /\ OneTaken(player.inventory, player'.inventory, last'.arg)
                            /\ room_items'[k] = Append(room_items[k], last'.arg)
                  /\ last'.op = "use"
                         => /\ room_items' = room_items
                            /\ IF last'.failed
                               THEN player'.inventory = player.inventory
                               ELSE /\ is_healing_potion(last'.arg)
                                    /\ OneTaken(player.inventory, player'.inventory,
                                                last'.arg)
                  /\ last'.op # "use"
                         => \/ /\ room_items' = room_items
                               /\ player'.inventory = player.inventory
                            \/ \A x \in names : held_after(x) = held(x)]_vars

\* C35 witness: after a pickup in the start room the player has dropped one of
\* the three pairs of claws there again: the room lists three pairs as before
C35_Witness ==
    /\ last.op = "drop" /\ ~last.failed
    /\ last.arg = "pair_of_red_fur_claws"
    /\ player.location = "temple_of_stillness"
    /\ room_items["temple_of_stillness"] = rooms["temple_of_stillness"].items
    /\ ops = 3

====
